---- MODULE Spec2Model ----
(***************************************************************************)
(* Model of the CAIC client (class CAICClient): the location-to-forecast   *)
(* resolution fetchForecastForLocation, its two upstream fetches, and the  *)
(* point-in-polygon helpers it is built on.                                *)
(*                                                                         *)
(* Coordinates are integers; the one division of the ray-casting test is   *)
(* carried out on exact quotients <<numerator, denominator>>, so that a    *)
(* zero denominator behaves as it does in JavaScript (+Infinity,           *)
(* -Infinity or NaN) instead of not being evaluated at all.                *)
(***************************************************************************)
EXTENDS Integers, Sequences, FiniteSets, TLC

VARIABLES upAreas, upProducts, calls, gIn, gOut

vars == <<upAreas, upProducts, calls, gIn, gOut>>

resolveVars == <<upAreas, upProducts, calls>>

geoVars == <<gIn, gOut>>

----------------------------------------------------------------------------
(* Bounds of the model *)

\* the longest ring of the ring specification
MaxRingLen == 4

----------------------------------------------------------------------------
(* Number arithmetic of the ray-casting test *)

\* a / b on numbers: the exact quotient, denominator kept non-negative;
\* b = 0 gives <<1, 0>> (+Infinity), <<-1, 0>> (-Infinity) or <<0, 0>> (NaN)
Sign(a) == IF a > 0 THEN 1 ELSE IF a < 0 THEN -1 ELSE 0

Div(a, b) == IF b > 0 THEN <<a, b>> ELSE IF b < 0 THEN <<-a, -b>> ELSE <<Sign(a), 0>>

\* q + k
Plus(q, k) == <<q[1] + k * q[2], q[2]>>

\* k < q   (false for q = NaN and q = -Infinity, true for q = +Infinity)
Less(k, q) == k * q[2] < q[1]

----------------------------------------------------------------------------
(* Point-in-polygon helpers.  A ring is a sequence of <<lng, lat>> pairs,  *)
(* a polygon a sequence of rings, MultiPolygon coordinates a sequence of   *)
(* polygons; a bbox is <<minLng, minLat, maxLng, maxLat>>.                 *)

\* variant: latitude tested against the longitude range and the reverse
isPointInBbox_Swapped(lat, lng, bbox) ==
    lat >= bbox[1] /\ lat <= bbox[3] /\ lng >= bbox[2] /\ lng <= bbox[4]

\* variant: a point on the edge of the box is outside
isPointInBbox_Exclusive(lat, lng, bbox) ==
    lng > bbox[1] /\ lng < bbox[3] /\ lat > bbox[2] /\ lat < bbox[4]

isPointInBbox(lat, lng, bbox) ==
    LET minLng == bbox[1]
        minLat == bbox[2]
        maxLng == bbox[3]
        maxLat == bbox[4]
    IN  lng >= minLng /\ lng <= maxLng /\ lat >= minLat /\ lat <= maxLat

\* variant: both operands are evaluated (`&` in place of `&&`)
EdgeDivisors_Eager(lat, lng, ring, i, j) == { ring[j + 1][2] - ring[i + 1][2] }

\* the divisors of the divisions carried out while the condition is evaluated for the
\* edge (ring[i], ring[j]): `&&` evaluates its right operand, which holds the only
\* division, when and only when its left operand is true
EdgeDivisors(lat, lng, ring, i, j) ==
    LET yi == ring[i + 1][2]
        yj == ring[j + 1][2]
    IN  IF (yi > lat) # (yj > lat) THEN { yj - yi } ELSE {}

\* variant: only the comparison with the crossing's longitude, whether or not the
\* latitudes of the endpoints lie on both sides of the point
EdgeToggles_NoStraddle(lat, lng, ring, i, j) ==
    LET xi == ring[i + 1][1]
        yi == ring[i + 1][2]
        xj == ring[j + 1][1]
        yj == ring[j + 1][2]
    IN  Less(lng, Plus(Div((xj - xi) * (lat - yi), yj - yi), xi))

\* the condition of the if statement in the loop body, for the edge (ring[i], ring[j])
\* (0-based i, j as in the source)
EdgeToggles(lat, lng, ring, i, j) ==
    LET xi == ring[i + 1][1]
        yi == ring[i + 1][2]
        xj == ring[j + 1][1]
        yj == ring[j + 1][2]
    IN  /\ (yi > lat) # (yj > lat)
        /\ \E divisor \in EdgeDivisors(lat, lng, ring, i, j) :
              Less(lng, Plus(Div((xj - xi) * (lat - yi), divisor), xi))

RECURSIVE RingLoop(_, _, _, _, _, _)
\* for (let i = 0, j = n - 1; i < n; j = i++) { if (...) inside = !inside; }
RingLoop(lat, lng, ring, i, j, inside) ==
    IF i < Len(ring)
    THEN RingLoop(lat, lng, ring, i + 1, i,
                  IF EdgeToggles(lat, lng, ring, i, j) THEN ~inside ELSE inside)
    ELSE inside

\* variant: j starts at 0, so the closing edge (ring[0], ring[n - 1]) is never looked at
isPointInRing_NoWrap(lat, lng, ring) == RingLoop(lat, lng, ring, 0, 0, FALSE)

isPointInRing(lat, lng, ring) == RingLoop(lat, lng, ring, 0, Len(ring) - 1, FALSE)

RECURSIVE HoleLoop(_, _, _, _)
\* for (let i = 1; i < polygon.length; i++) if (isPointInRing(...)) { inHole = true; break; }
HoleLoop(lat, lng, polygon, i) ==
    IF i < Len(polygon)
    THEN IF isPointInRing(lat, lng, polygon[i + 1])
         THEN TRUE
         ELSE HoleLoop(lat, lng, polygon, i + 1)
    ELSE FALSE

\* variant: the hole loop starts at ring 2, taking ring 1 for a second outer boundary
InHole_FromRingTwo(lat, lng, polygon) == HoleLoop(lat, lng, polygon, 2)

\* let inHole = false; for (let i = 1; ...) ...   (rings 1+ are the holes)
InHole(lat, lng, polygon) == HoleLoop(lat, lng, polygon, 1)

RECURSIVE PolygonLoop(_, _, _, _)
\* for (const polygon of coordinates) { ... }  return false;   (k: 1-based position)
PolygonLoop(lat, lng, coordinates, k) ==
    IF k > Len(coordinates)
    THEN FALSE
    ELSE LET polygon == coordinates[k]
             outerRing == polygon[1]
         IN  IF ~isPointInRing(lat, lng, outerRing)
             THEN PolygonLoop(lat, lng, coordinates, k + 1)
             ELSE IF ~InHole(lat, lng, polygon)
                  THEN TRUE
                  ELSE PolygonLoop(lat, lng, coordinates, k + 1)

\* variant: `return !inHole` in the loop body, so the first polygon whose outer ring
\* holds the point decides
RECURSIVE PolygonLoop_ReturnEarly(_, _, _, _)
PolygonLoop_ReturnEarly(lat, lng, coordinates, k) ==
    IF k > Len(coordinates)
    THEN FALSE
    ELSE IF ~isPointInRing(lat, lng, coordinates[k][1])
         THEN PolygonLoop_ReturnEarly(lat, lng, coordinates, k + 1)
         ELSE ~InHole(lat, lng, coordinates[k])

isPointInMultiPolygon_ReturnEarly(lat, lng, coordinates) ==
    PolygonLoop_ReturnEarly(lat, lng, coordinates, 1)

isPointInMultiPolygon(lat, lng, coordinates) == PolygonLoop(lat, lng, coordinates, 1)

----------------------------------------------------------------------------
(* Optional values: null / undefined is the empty sequence *)

Null == << >>

Some(x) == <<x>>

RECURSIVE FeatureLoop(_, _, _, _)
\* for (const feature of featureCollection.features) { ... }  return null;
FeatureLoop(lat, lng, features, k) ==
    IF k > Len(features)
    THEN Null
    ELSE LET feature == features[k]
         IN  IF ~isPointInBbox(lat, lng, feature.bbox)
             THEN FeatureLoop(lat, lng, features, k + 1)
             ELSE IF isPointInMultiPolygon(lat, lng, feature.geometry.coordinates)
                  THEN Some(feature)
                  ELSE FeatureLoop(lat, lng, features, k + 1)

RECURSIVE FeatureLoop_Last(_, _, _, _)
FeatureLoop_Last(lat, lng, features, k) ==
    IF k < 1
    THEN Null
    ELSE IF /\ isPointInBbox(lat, lng, features[k].bbox)
            /\ isPointInMultiPolygon(lat, lng, features[k].geometry.coordinates)
         THEN Some(features[k])
         ELSE FeatureLoop_Last(lat, lng, features, k - 1)

\* variant: the loop keeps going after a match, so the last containing area wins
findAreaContainingPoint_Last(lat, lng, featureCollection) ==
    FeatureLoop_Last(lat, lng, featureCollection.features, Len(featureCollection.features))

findAreaContainingPoint(lat, lng, featureCollection) ==
    FeatureLoop(lat, lng, featureCollection.features, 1)

\* products.filter((p) => p.type === type)
\* variant: special products are kept whatever type is asked for
filterByProductType_KeepSpecial(products, type) ==
    SelectSeq(products, LAMBDA p : p.type = type \/ p.type = "specialproduct")

filterByProductType(products, type) == SelectSeq(products, LAMBDA p : p.type = type)

RECURSIVE FindLoop(_, _, _)
FindLoop(products, areaId, k) ==
    IF k > Len(products)
    THEN Null
    ELSE IF products[k].areaId = areaId
         THEN Some(products[k])
         ELSE FindLoop(products, areaId, k + 1)

\* variant: joins on the feature's own id instead of properties.id
FindProduct_FeatureId(products, area) == FindLoop(products, area.id, 1)

\* products.find((p) => p.areaId === area.properties.id)
FindProduct(products, area) == FindLoop(products, area.properties.id, 1)

----------------------------------------------------------------------------
(* Results of a call of fetchForecastForLocation *)

Pending == [kind |-> "pending", product |-> Null, error |-> Null]

Returned(product) == [kind |-> IF product = Null THEN "null" ELSE "product",
                      product |-> product, error |-> Null]

Thrown(error) == [kind |-> "error", product |-> Null, error |-> Some(error)]

\* the last two statements of fetchForecastForLocation, for an area that was found:
\* `product ?? null`
LookupProduct(products, area) == Returned(FindProduct(products, area))

----------------------------------------------------------------------------
(* HTTP responses of the upstream, and what getAreas / getProducts make of *)
(* them                                                                    *)

StatusText(status) ==
    CASE status = 200 -> "OK"
      [] status = 201 -> "Created"
      [] status = 204 -> "No Content"
      [] status = 300 -> "Multiple Choices"
      [] status = 304 -> "Not Modified"
      [] status = 400 -> "Bad Request"
      [] status = 404 -> "Not Found"
      [] status = 500 -> "Internal Server Error"
      [] status = 503 -> "Service Unavailable"
      [] OTHER -> ""

Response(status, body) == [status |-> status, statusText |-> StatusText(status), body |-> body]

\* variant: only client and server errors (4xx, 5xx) are failures
ResponseOk_Below400(response) == response.status < 400

\* Response.ok of the fetch API
ResponseOk(response) == response.status >= 200 /\ response.status <= 299

\* new Error(`Failed to fetch areas: ${response.status} ${response.statusText}`)
FetchError(endpoint, response) ==
    [endpoint |-> endpoint, status |-> response.status, statusText |-> response.statusText]

\* how the promise of an async method settles
Fulfilled(value) == [threw |-> FALSE, value |-> Some(value), error |-> Null]

Rejected(error) == [threw |-> TRUE, value |-> Null, error |-> Some(error)]

\* getAreas after `await fetch(url)`; the payloads of the model are well-formed JSON, of
\* which response.json() yields the value
getAreas(response) ==
    IF ~ResponseOk(response)
    THEN Rejected(FetchError("areas", response))
    ELSE Fulfilled(response.body)

\* getProducts after `await fetch(url)`
getProducts(response) ==
    IF ~ResponseOk(response)
    THEN Rejected(FetchError("products", response))
    ELSE Fulfilled(response.body)

----------------------------------------------------------------------------
(* The upstream data the resolution is exercised on *)

NumCalls == 2

MaxAreas == 3

MaxProducts == 2

Square(lo, hi) == << <<lo, lo>>, <<hi, lo>>, <<hi, hi>>, <<lo, hi>> >>

Outer == Square(0, 10)

Hole == Square(4, 6)

WideHole == Square(3, 8)

East == << <<12, 0>>, <<20, 0>>, <<20, 10>>, <<12, 10>> >>

Feature(id, bbox, coordinates, areaId) ==
    [id |-> id, bbox |-> bbox, geometry |-> [coordinates |-> coordinates],
     properties |-> [id |-> areaId]]

\* a1: a square with a hole; a2: two disjoint squares, the first overlapping a1;
\* a3: the square of a1 with a bbox that covers only its lower left corner;
\* a4: a smaller square inside a1, around its hole
AreaList ==
    << Feature("f1", <<0, 0, 10, 10>>, << <<Outer, Hole>> >>, "a1"),
       Feature("f2", <<0, 0, 20, 10>>, << <<Outer>>, <<East>> >>, "a2"),
       Feature("f3", <<0, 0, 4, 4>>, << <<Outer>> >>, "a3"),
       Feature("f4", <<3, 3, 8, 8>>, << <<WideHole>> >>, "a4") >>

AreaCatalogue == { AreaList[k] : k \in 1..Len(AreaList) }

ProductTypes == {"avalancheforecast", "regionaldiscussion", "specialproduct"}

\* the product types the calls of the model ask for
RequestTypes == {"avalancheforecast", "regionaldiscussion"}

Product(id, areaId, type) == [id |-> id, areaId |-> areaId, type |-> type]

ProductList ==
    << Product("p1", "a1", "avalancheforecast"),
       Product("p2", "a2", "regionaldiscussion"),
       Product("p3", "a2", "avalancheforecast"),
       Product("p4", "a2", "avalancheforecast") >>

ProductCatalogue == { ProductList[k] : k \in 1..Len(ProductList) }

\* <<lat, lng>> of the queries: in the hole of a1, outside a3's bbox, in a2 and a4;
\* in a1, a2 and a3; in the eastern square of a2 only
QueryPoints == { <<5, 5>>, <<2, 2>>, <<5, 15>> }

SeqsUpTo(S, n) == UNION { [1..k -> S] : k \in 0..n }

FailureStatuses == {404, 500}

NoAreas == [features |-> << >>]

AreasResponses ==
    { Response(200, [features |-> fs]) : fs \in SeqsUpTo(AreaCatalogue, MaxAreas) }
    \cup { Response(st, NoAreas) : st \in FailureStatuses }

ProductsResponses ==
    { Response(200, ps) : ps \in SeqsUpTo(ProductCatalogue, MaxProducts) }
    \cup { Response(st, << >>) : st \in FailureStatuses }

----------------------------------------------------------------------------
(* The calls of fetchForecastForLocation.  A call is suspended only at the *)
(* await of Promise.all; each action is one synchronous run of its code.   *)

Calls == 1..NumCalls

IdleCall ==
    [pc |-> "idle", productType |-> "avalancheforecast", lat |-> 0, lng |-> 0,
     areasReq |-> "none", productsReq |-> "none",
     areasRequests |-> 0, productsRequests |-> 0,
     areas |-> NoAreas, products |-> << >>,
     area |-> Null, computed |-> FALSE, result |-> Pending]

\* variant: `await getAreas()` before fetchForecastForProduct is called
Begin_Sequential(call, productType, lat, lng) ==
    [call EXCEPT !.pc = "awaiting", !.productType = productType,
                 !.lat = lat, !.lng = lng,
                 !.areasReq = "pending", !.areasRequests = @ + 1]

\* fetchForecastForLocation up to its await: getAreas and fetchForecastForProduct ->
\* getProducts each run up to their own `await fetch(url)`, so both requests are out
Begin(call, productType, lat, lng) ==
    [call EXCEPT !.pc = "awaiting", !.productType = productType,
                 !.lat = lat, !.lng = lng,
                 !.areasReq = "pending", !.areasRequests = @ + 1,
                 !.productsReq = "pending", !.productsRequests = @ + 1]

\* variant: a point outside every area is reported as an error
Complete_ThrowOnMissing(call) ==
    LET area == findAreaContainingPoint(call.lat, call.lng, call.areas)
    IN  [call EXCEPT !.pc = "done", !.computed = TRUE, !.area = area,
                     !.result = IF area = Null
                                THEN Thrown(FetchError("areas", Response(404, NoAreas)))
                                ELSE LookupProduct(call.products, area[1])]

\* variant: an area without a record is passed over for the next area that contains
\* the point and has one
Complete_Fallback(call) ==
    LET features == call.areas.features
        K == { k \in 1..Len(features) :
                 /\ isPointInBbox(call.lat, call.lng, features[k].bbox)
                 /\ isPointInMultiPolygon(call.lat, call.lng, features[k].geometry.coordinates)
                 /\ FindProduct(call.products, features[k]) # Null }
        area == IF K = {}
                THEN findAreaContainingPoint(call.lat, call.lng, call.areas)
                ELSE Some(features[CHOOSE k \in K : \A j \in K : k <= j])
    IN  [call EXCEPT !.pc = "done", !.computed = TRUE, !.area = area,
                     !.result = IF area = Null
                                THEN Returned(Null)
                                ELSE LookupProduct(call.products, area[1])]

\* Promise.all has both values: the rest of fetchForecastForLocation runs
Complete(call) ==
    LET area == findAreaContainingPoint(call.lat, call.lng, call.areas)
    IN  [call EXCEPT !.pc = "done", !.computed = TRUE, !.area = area,
                     !.result = IF area = Null
                                THEN Returned(Null)
                                ELSE LookupProduct(call.products, area[1])]

\* variant: a failed fetch is swallowed (Promise.allSettled style) and reported as null
Reject_Swallow(call, error) ==
    IF call.pc = "awaiting"
    THEN [call EXCEPT !.pc = "done", !.result = Returned(Null)]
    ELSE call

\* variant: the rejection that comes last is the one the caller sees
Reject_LastWins(call, error) == [call EXCEPT !.pc = "done", !.result = Thrown(error)]

\* Promise.all rejects with the first rejection; later ones are ignored
Reject(call, error) ==
    IF call.pc = "awaiting"
    THEN [call EXCEPT !.pc = "done", !.result = Thrown(error)]
    ELSE call

\* variant: getAreas is called once more when its first request failed
AreasArrive_Retry(call, response) ==
    LET settled == getAreas(response)
    IN  IF settled.threw
        THEN IF call.areasRequests < 2
             THEN [call EXCEPT !.areasRequests = @ + 1]
             ELSE Reject([call EXCEPT !.areasReq = "failed"], settled.error[1])
        ELSE LET got == [call EXCEPT !.areasReq = "ok", !.areas = settled.value[1]]
             IN  IF got.pc = "awaiting" /\ got.productsReq = "ok" THEN Complete(got) ELSE got

\* the promise of getAreas settles
AreasArrive(call, response) ==
    LET settled == getAreas(response)
    IN  IF settled.threw
        THEN Reject([call EXCEPT !.areasReq = "failed"], settled.error[1])
        ELSE LET got == [call EXCEPT !.areasReq = "ok", !.areas = settled.value[1]]
             IN  IF got.pc = "awaiting" /\ got.productsReq = "ok" THEN Complete(got) ELSE got

\* variant: the requested type is kept in a field of the client shared by all calls
\* (here: the type of the call started last), and the filter reads it
LastRequestedType ==
    IF calls[NumCalls].pc # "idle" THEN calls[NumCalls].productType ELSE calls[1].productType

ProductsArrive_SharedType(call, response) ==
    IF ~ResponseOk(response)
    THEN Reject([call EXCEPT !.productsReq = "failed"], FetchError("products", response))
    ELSE LET got == [call EXCEPT !.productsReq = "ok",
                        !.products = filterByProductType(response.body, LastRequestedType)]
         IN  IF got.pc = "awaiting" /\ got.areasReq = "ok" THEN Complete(got) ELSE got

\* variant: fetchForecastForProduct returns what getProducts returned, unfiltered
ProductsArrive_Unfiltered(call, response) ==
    LET settled == getProducts(response)
    IN  IF settled.threw
        THEN Reject([call EXCEPT !.productsReq = "failed"], settled.error[1])
        ELSE LET got == [call EXCEPT !.productsReq = "ok", !.products = settled.value[1]]
             IN  IF got.pc = "awaiting" /\ got.areasReq = "ok" THEN Complete(got) ELSE got

\* the promise of getProducts settles, then fetchForecastForProduct's filter
ProductsArrive(call, response) ==
    LET settled == getProducts(response)
    IN  IF settled.threw
        THEN Reject([call EXCEPT !.productsReq = "failed"], settled.error[1])
        ELSE LET got == [call EXCEPT !.productsReq = "ok",
                            !.products = filterByProductType(settled.value[1], call.productType)]
             IN  IF got.pc = "awaiting" /\ got.areasReq = "ok" THEN Complete(got) ELSE got

NoCalls == [c \in Calls |-> IdleCall]

\* one call, against every upstream of the catalogues
Init ==
    /\ upAreas \in AreasResponses
    /\ upProducts \in ProductsResponses
    /\ calls = NoCalls
    /\ gIn = << >>
    /\ gOut = << >>

\* NumCalls calls, against an upstream that sends the whole catalogues or fails
InitCalls ==
    /\ upAreas \in { Response(200, [features |-> AreaList]) }
                       \cup { Response(st, NoAreas) : st \in FailureStatuses }
    /\ upProducts \in { Response(200, ProductList) }
                       \cup { Response(st, << >>) : st \in FailureStatuses }
    /\ calls = NoCalls
    /\ gIn = << >>
    /\ gOut = << >>

Start(c) ==
    /\ calls[c].pc = "idle"
    /\ \E productType \in RequestTypes, pt \in QueryPoints :
          calls' = [calls EXCEPT ![c] = Begin(calls[c], productType, pt[1], pt[2])]
    /\ UNCHANGED <<upAreas, upProducts, gIn, gOut>>

AreasRespond(c) ==
    /\ calls[c].areasReq = "pending"
    /\ calls' = [calls EXCEPT ![c] = AreasArrive(calls[c], upAreas)]
    /\ UNCHANGED <<upAreas, upProducts, gIn, gOut>>

ProductsRespond(c) ==
    /\ calls[c].productsReq = "pending"
    /\ calls' = [calls EXCEPT ![c] = ProductsArrive(calls[c], upProducts)]
    /\ UNCHANGED <<upAreas, upProducts, gIn, gOut>>

Next ==
    \/ Start(1)
    \/ AreasRespond(1)
    \/ ProductsRespond(1)

Spec == Init /\ [][Next]_vars

NextCalls ==
    \E c \in Calls :
        \/ Start(c)
        \/ AreasRespond(c)
        \/ ProductsRespond(c)

SpecCalls == InitCalls /\ [][NextCalls]_vars

----------------------------------------------------------------------------
(* One call against an upstream that may leave a request unanswered        *)
(* (specification SpecStall).  fetch(url) is called without a signal and   *)
(* fetchForecastForLocation starts no timer, so nothing in the client ends *)
(* such a request.                                                         *)

\* the connection of getAreas hangs: the promise of fetch never settles
AreasStall(c) ==
    /\ calls[c].areasReq = "pending"
    /\ calls' = [calls EXCEPT ![c].areasReq = "stalled"]
    /\ UNCHANGED <<upAreas, upProducts, gIn, gOut>>

\* the connection of getProducts hangs
ProductsStall(c) ==
    /\ calls[c].productsReq = "pending"
    /\ calls' = [calls EXCEPT ![c].productsReq = "stalled"]
    /\ UNCHANGED <<upAreas, upProducts, gIn, gOut>>

NextStall ==
    \/ Start(1)
    \/ AreasRespond(1)
    \/ ProductsRespond(1)
    \/ AreasStall(1)
    \/ ProductsStall(1)

\* the event loop runs the continuation of every fetch whose response has come
FairStall == WF_vars(AreasRespond(1)) /\ WF_vars(ProductsRespond(1))

SpecStall == InitCalls /\ [][NextStall]_vars /\ FairStall

----------------------------------------------------------------------------
(* The ring test on its own (specification SpecRing): every ring of up to  *)
(* MaxRingLen vertices of a grid, every point of the grid's surroundings   *)

\* the vertices lie on a 3 x 3 grid; the points on the integer grid around it, on the
\* grid lines, between them and outside
RingVertices == { <<x, y>> : x \in {0, 2, 4}, y \in {0, 2, 4} }

RingPoints == -1..5

IdleResolve ==
    /\ upAreas = Response(200, NoAreas)
    /\ upProducts = Response(200, << >>)
    /\ calls = NoCalls

\* the caller picks a point and puts a ring together, vertex by vertex
InitRing ==
    /\ IdleResolve
    /\ gIn \in { [lat |-> lat, lng |-> lng, ring |-> << >>] :
                   lat \in RingPoints, lng \in RingPoints }
    /\ gOut = << >>

AddVertex ==
    /\ gOut = << >>
    /\ Len(gIn.ring) < MaxRingLen
    /\ \E v \in RingVertices : gIn' = [gIn EXCEPT !.ring = Append(@, v)]
    /\ UNCHANGED <<upAreas, upProducts, calls, gOut>>

EvalRing ==
    /\ gOut = << >>
    /\ gOut' = <<isPointInRing(gIn.lat, gIn.lng, gIn.ring)>>
    /\ UNCHANGED <<upAreas, upProducts, calls, gIn>>

NextRing == AddVertex \/ EvalRing

SpecRing == InitRing /\ [][NextRing]_vars

\* the same rings, with the point on or between the two lower grid lines, and west of,
\* between or on the meridians of the vertices (specification SpecEdges)
EdgePoints == { <<lat, lng>> : lat \in {0, 1, 2}, lng \in {-1, 1, 2} }

InitEdges ==
    /\ IdleResolve
    /\ gIn \in { [lat |-> pt[1], lng |-> pt[2], ring |-> << >>] : pt \in EdgePoints }
    /\ gOut = << >>

SpecEdges == InitEdges /\ [][NextRing]_vars

----------------------------------------------------------------------------
(* The multipolygon test on its own (specification SpecGeo): multipolygons *)
(* of up to MaxPolygons polygons, each one of the two squares with up to   *)
(* MaxHoles holes, the holes overlapping each other                        *)

MaxPolygons == 2

MaxHoles == 2

OuterRings == {Outer, East}

HoleRings == {Hole, WideHole}

Polygons == { <<outer>> \o holes : outer \in OuterRings, holes \in SeqsUpTo(HoleRings, MaxHoles) }

\* <<lat, lng>>: in both holes; in the wide hole only; in the first square outside the
\* holes; in the eastern square; outside everything
GeoPoints == { <<5, 5>>, <<7, 7>>, <<2, 2>>, <<5, 15>>, <<5, 25>> }

\* the caller picks a point and puts a multipolygon together, polygon by polygon
InitGeo ==
    /\ IdleResolve
    /\ gIn \in { [lat |-> pt[1], lng |-> pt[2], coordinates |-> << >>] : pt \in GeoPoints }
    /\ gOut = << >>

AddPolygon ==
    /\ gOut = << >>
    /\ Len(gIn.coordinates) < MaxPolygons
    /\ \E polygon \in Polygons : gIn' = [gIn EXCEPT !.coordinates = Append(@, polygon)]
    /\ UNCHANGED <<upAreas, upProducts, calls, gOut>>

EvalMultiPolygon ==
    /\ gOut = << >>
    /\ gOut' = <<isPointInMultiPolygon(gIn.lat, gIn.lng, gIn.coordinates)>>
    /\ UNCHANGED <<upAreas, upProducts, calls, gIn>>

NextGeo == AddPolygon \/ EvalMultiPolygon

SpecGeo == InitGeo /\ [][NextGeo]_vars

----------------------------------------------------------------------------
(* The bounding box test on its own (specification SpecBbox): every box,   *)
(* ill-ordered ones included, and every point of a small grid              *)

BboxCoords == 0..3

\* the caller picks a point and the four numbers of a bbox, one by one
InitBbox ==
    /\ IdleResolve
    /\ gIn \in { [lat |-> lat, lng |-> lng, bbox |-> << >>] :
                   lat \in BboxCoords, lng \in BboxCoords }
    /\ gOut = << >>

AddBound ==
    /\ gOut = << >>
    /\ Len(gIn.bbox) < 4
    /\ \E b \in BboxCoords : gIn' = [gIn EXCEPT !.bbox = Append(@, b)]
    /\ UNCHANGED <<upAreas, upProducts, calls, gOut>>

EvalBbox ==
    /\ gOut = << >>
    /\ Len(gIn.bbox) = 4
    /\ gOut' = <<isPointInBbox(gIn.lat, gIn.lng, gIn.bbox)>>
    /\ UNCHANGED <<upAreas, upProducts, calls, gIn>>

NextBbox == AddBound \/ EvalBbox

SpecBbox == InitBbox /\ [][NextBbox]_vars

----------------------------------------------------------------------------
(* The type filter on its own (specification SpecFilter): every list of up *)
(* to MaxFilterLen records of the three types, repeated records included   *)

MaxFilterLen == 3

FilterCatalogue == ProductCatalogue \cup { Product("p5", "a1", "specialproduct") }

InitFilter ==
    /\ IdleResolve
    /\ gIn \in { [products |-> << >>, type |-> type] : type \in ProductTypes }
    /\ gOut = << >>

AddProduct ==
    /\ gOut = << >>
    /\ Len(gIn.products) < MaxFilterLen
    /\ \E p \in FilterCatalogue : gIn' = [gIn EXCEPT !.products = Append(@, p)]
    /\ UNCHANGED <<upAreas, upProducts, calls, gOut>>

\* Array.prototype.filter builds a new array and leaves its receiver as it is
EvalFilter ==
    /\ gOut = << >>
    /\ gOut' = <<filterByProductType(gIn.products, gIn.type)>>
    /\ UNCHANGED <<upAreas, upProducts, calls, gIn>>

NextFilter == AddProduct \/ EvalFilter

SpecFilter == InitFilter /\ [][NextFilter]_vars

----------------------------------------------------------------------------
(* The avalanche info tool (specification SpecTool): one run of execute,   *)
(* for each of the three product types, against upstreams whose product    *)
(* lists mix the three types                                               *)

\* what execute returns or throws; the formatters are not modelled: a content is the
\* name of the formatter and the record it was given
ToolReturn(content, error) == [threw |-> FALSE, content |-> content, error |-> error]

ToolThrow(error) == [threw |-> TRUE, content |-> Null, error |-> Some(error)]

\* execute after `await client.fetchForecastForLocation(...)`
execute(productType, result) ==
    IF result.kind = "error"
    THEN ToolThrow(result.error[1])
    ELSE IF result.product = Null
    THEN ToolReturn(Null, Some("No forecast available for this location"))
    ELSE LET product == result.product[1]
         IN  IF productType = "avalancheforecast" /\ product.type = "avalancheforecast"
             THEN ToolReturn(Some(<<"formatAvalancheForecast", product>>), Null)
             ELSE IF productType = "regionaldiscussion" /\ product.type = "regionaldiscussion"
             THEN ToolReturn(Some(<<"formatRegionalDiscussion", product>>), Null)
             ELSE IF productType = "specialproduct" /\ product.type = "specialproduct"
             THEN ToolReturn(Some(<<"formatSpecialProduct", product>>), Null)
             ELSE ToolReturn(Null, Some("Unexpected product type"))

InitTool ==
    /\ upAreas \in { Response(200, [features |-> SubSeq(AreaList, 1, k)]) :
                        k \in 0..Len(AreaList) }
                     \cup { Response(st, NoAreas) : st \in FailureStatuses }
    /\ upProducts \in { Response(200, ps) : ps \in SeqsUpTo(FilterCatalogue, MaxProducts) }
                       \cup { Response(st, << >>) : st \in FailureStatuses }
    /\ calls = NoCalls
    /\ gIn = << >>
    /\ gOut = << >>

\* execute up to its await: the input has passed the schema of the tool
ToolStart(c) ==
    /\ calls[c].pc = "idle"
    /\ \E productType \in ProductTypes, pt \in QueryPoints :
          calls' = [calls EXCEPT ![c] = Begin(calls[c], productType, pt[1], pt[2])]
    /\ UNCHANGED <<upAreas, upProducts, gIn, gOut>>

\* execute goes on when the call of fetchForecastForLocation has ended
ToolOutcome(before, after) ==
    IF before.pc = "awaiting" /\ after.pc = "done"
    THEN <<execute(after.productType, after.result)>>
    ELSE gOut

ToolAreasRespond(c) ==
    /\ calls[c].areasReq = "pending"
    /\ calls' = [calls EXCEPT ![c] = AreasArrive(calls[c], upAreas)]
    /\ gOut' = ToolOutcome(calls[c], calls'[c])
    /\ UNCHANGED <<upAreas, upProducts, gIn>>

ToolProductsRespond(c) ==
    /\ calls[c].productsReq = "pending"
    /\ calls' = [calls EXCEPT ![c] = ProductsArrive(calls[c], upProducts)]
    /\ gOut' = ToolOutcome(calls[c], calls'[c])
    /\ UNCHANGED <<upAreas, upProducts, gIn>>

NextTool ==
    \/ ToolStart(1)
    \/ ToolAreasRespond(1)
    \/ ToolProductsRespond(1)

SpecTool == InitTool /\ [][NextTool]_vars

----------------------------------------------------------------------------
(* The two fetches on their own (specification SpecFetch): every status of *)
(* FetchStatuses, with and without a payload                               *)

\* 2xx other than 200, both ends of the 2xx range, 3xx, 4xx and 5xx
FetchStatuses == {200, 201, 204, 299, 300, 304, 400, 404, 500, 503}

InitFetch ==
    /\ upAreas \in { Response(st, [features |-> SubSeq(AreaList, 1, k)]) :
                        st \in FetchStatuses, k \in {0, 1, Len(AreaList)} }
    /\ upProducts \in { Response(st, SubSeq(ProductList, 1, k)) :
                           st \in FetchStatuses, k \in {0, 1, Len(ProductList)} }
    /\ calls = NoCalls
    /\ gIn = << >>
    /\ gOut = << >>

EvalGetAreas ==
    /\ gOut = << >>
    /\ gIn' = <<"areas", upAreas>>
    /\ gOut' = <<getAreas(upAreas)>>
    /\ UNCHANGED <<upAreas, upProducts, calls>>

EvalGetProducts ==
    /\ gOut = << >>
    /\ gIn' = <<"products", upProducts>>
    /\ gOut' = <<getProducts(upProducts)>>
    /\ UNCHANGED <<upAreas, upProducts, calls>>

NextFetch == EvalGetAreas \/ EvalGetProducts

SpecFetch == InitFetch /\ [][NextFetch]_vars

----------------------------------------------------------------------------
(* Properties of the resolution (specifications Spec and SpecCalls) *)

\* both tests of the loop of findAreaContainingPoint, for the k-th received area
Contains(call, k) ==
    LET feature == call.areas.features[k]
    IN  /\ isPointInBbox(call.lat, call.lng, feature.bbox)
        /\ isPointInMultiPolygon(call.lat, call.lng, feature.geometry.coordinates)

ContainingAreas(call) == { k \in 1..Len(call.areas.features) : Contains(call, k) }

Least(K) == CHOOSE k \in K : \A j \in K : k <= j

AreasError == FetchError("areas", upAreas)

ProductsError == FetchError("products", upProducts)

\* C1: the area a call selects is the first one, in the received order, that passes
\* both the bbox test and the multipolygon test; when there is none, none is selected
C1_FirstContainingArea ==
    \A c \in Calls :
        calls[c].computed =>
            LET K == ContainingAreas(calls[c])
            IN  IF K = {}
                THEN calls[c].area = Null
                ELSE /\ calls[c].area = Some(calls[c].areas.features[Least(K)])
                     /\ \A j \in 1..(Least(K) - 1) : ~Contains(calls[c], j)

\* the first received area has the point in its bbox but in its hole, the second and
\* the third are different areas that both contain it: the second was selected
C1_Witness ==
    \E c \in Calls :
        /\ calls[c].computed
        /\ ContainingAreas(calls[c]) = {2, 3}
        /\ isPointInBbox(calls[c].lat, calls[c].lng, calls[c].areas.features[1].bbox)
        /\ calls[c].areas.features[2] # calls[c].areas.features[3]
        /\ calls[c].area = Some(calls[c].areas.features[2])

\* C2: once a fetch of a call has failed, the call has failed with the error of a
\* failed fetch of its own (of the failed one when only one failed), and has neither a
\* record nor null as its result
C2_FetchFailureFailsCall ==
    \A c \in Calls :
        (calls[c].areasReq = "failed" \/ calls[c].productsReq = "failed") =>
            /\ calls[c].pc = "done"
            /\ calls[c].result.kind = "error"
            /\ calls[c].result.product = Null
            /\ \/ calls[c].areasReq = "failed" /\ calls[c].result.error = Some(AreasError)
               \/ calls[c].productsReq = "failed"
                    /\ calls[c].result.error = Some(ProductsError)

\* a call whose areas fetch succeeded failed with the error of its products fetch
C2_Witness ==
    \E c \in Calls :
        /\ calls[c].areasReq = "ok" /\ calls[c].productsReq = "failed"
        /\ calls[c].result = Thrown(ProductsError)

\* C3: with both fetches successful and a non-empty area collection of which no area
\* contains the point, the call ends with null and not with an error; and a call that
\* ended with null had both fetches succeed
C3_NotFoundIsNull ==
    \A c \in Calls :
        /\ ( /\ calls[c].areasReq = "ok" /\ calls[c].productsReq = "ok"
             /\ Len(calls[c].areas.features) > 0
             /\ ContainingAreas(calls[c]) = {} )
           => ( /\ calls[c].pc = "done"
                /\ calls[c].result = Returned(Null)
                /\ calls[c].result.kind = "null" )
        /\ calls[c].result.kind = "null"
           => (calls[c].areasReq = "ok" /\ calls[c].productsReq = "ok")

C3_Witness ==
    \E c \in Calls :
        /\ calls[c].computed
        /\ Len(calls[c].areas.features) = MaxAreas
        /\ ContainingAreas(calls[c]) = {}
        /\ Len(calls[c].products) > 0
        /\ calls[c].result.kind = "null"

\* positions in the upstream's product list of the records of the requested type that
\* carry the id of the selected area
MatchingRecords(call) ==
    { k \in 1..Len(upProducts.body) :
        /\ upProducts.body[k].type = call.productType
        /\ upProducts.body[k].areaId = call.area[1].properties.id }

\* C4: when an area was found, the result is the first record of the requested type
\* whose areaId is that area's properties.id, as the upstream sent it; null if there is
\* no such record
C4_FirstMatchingRecord ==
    \A c \in Calls :
        (calls[c].computed /\ calls[c].area # Null) =>
            LET M == MatchingRecords(calls[c])
            IN  IF M = {}
                THEN calls[c].result = Returned(Null)
                ELSE /\ calls[c].result.kind = "product"
                     /\ calls[c].result.product = Some(upProducts.body[Least(M)])
                     /\ calls[c].result.error = Null

\* a call that had two different records of its area and type to choose from
C4_Witness ==
    \E c \in Calls :
        /\ calls[c].computed /\ calls[c].area # Null
        /\ MatchingRecords(calls[c]) = {1, 2}
        /\ upProducts.body[1] # upProducts.body[2]
        /\ calls[c].result.product = Some(upProducts.body[1])

\* the vertices of all rings of a feature's geometry
Vertices(feature) ==
    LET coordinates == feature.geometry.coordinates
    IN  UNION { UNION { { coordinates[q][r][v] : v \in 1..Len(coordinates[q][r]) } :
                        r \in 1..Len(coordinates[q]) } :
                q \in 1..Len(coordinates) }

\* the bbox of the feature encloses every vertex of its geometry
BboxEnclosesGeometry(feature) ==
    \A v \in Vertices(feature) :
        /\ feature.bbox[1] <= v[1] /\ v[1] <= feature.bbox[3]
        /\ feature.bbox[2] <= v[2] /\ v[2] <= feature.bbox[4]

GeometryContains(call, feature) ==
    isPointInMultiPolygon(call.lat, call.lng, feature.geometry.coordinates)

ReceivedAreas(call) == { call.areas.features[k] : k \in 1..Len(call.areas.features) }

\* C8 as stated: for every received area, a point inside the geometry is inside the
\* bbox, and a call that selected no area had no area whose geometry holds the point
C8_NoFalseNegatives ==
    \A c \in Calls :
        calls[c].computed =>
            /\ \A feature \in ReceivedAreas(calls[c]) :
                  GeometryContains(calls[c], feature)
                      => isPointInBbox(calls[c].lat, calls[c].lng, feature.bbox)
            /\ calls[c].area = Null
                  => \A feature \in ReceivedAreas(calls[c]) :
                        ~GeometryContains(calls[c], feature)

\* C8 amended: the same for the received areas whose bbox encloses every vertex of
\* their geometry, and for the calls all of whose received areas are such
C8_NoFalseNegativesOfEnclosingBbox ==
    \A c \in Calls :
        calls[c].computed =>
            /\ \A feature \in ReceivedAreas(calls[c]) :
                  (BboxEnclosesGeometry(feature) /\ GeometryContains(calls[c], feature))
                      => isPointInBbox(calls[c].lat, calls[c].lng, feature.bbox)
            /\ ( /\ calls[c].area = Null
                 /\ \A feature \in ReceivedAreas(calls[c]) : BboxEnclosesGeometry(feature) )
                  => \A feature \in ReceivedAreas(calls[c]) :
                        ~GeometryContains(calls[c], feature)

\* a call selected the second of two well-formed areas, through its second polygon
C8_Witness ==
    \E c \in Calls :
        /\ calls[c].computed
        /\ Len(calls[c].areas.features) = 2
        /\ calls[c].areas.features[1] # calls[c].areas.features[2]
        /\ \A feature \in ReceivedAreas(calls[c]) : BboxEnclosesGeometry(feature)
        /\ calls[c].area = Some(calls[c].areas.features[2])
        /\ calls[c].lat # calls[c].lng

\* C9: whenever a call is suspended, and whenever a response of it has arrived, both
\* of its requests have been issued (once each); and the containment computation has
\* run only in calls whose two fetches both succeeded
C9_BothIssuedBeforeAwait ==
    \A c \in Calls :
        /\ ( \/ calls[c].pc # "idle"
             \/ calls[c].areasReq \in {"ok", "failed"}
             \/ calls[c].productsReq \in {"ok", "failed"} )
           => ( /\ calls[c].areasReq # "none" /\ calls[c].productsReq # "none"
                /\ calls[c].areasRequests = 1 /\ calls[c].productsRequests = 1 )
        /\ (calls[c].computed \/ calls[c].area # Null \/ calls[c].result.kind \in {"null", "product"})
           => (calls[c].areasReq = "ok" /\ calls[c].productsReq = "ok")

\* a call suspended with the products in hand and the areas request still out
C9_Witness ==
    \E c \in Calls :
        /\ calls[c].pc = "awaiting"
        /\ calls[c].productsReq = "ok" /\ calls[c].areasReq = "pending"
        /\ calls[c].areasRequests = 1 /\ calls[c].productsRequests = 1
        /\ ~calls[c].computed

\* what a call with these inputs returns when both fetches succeed
Resolved(productType, lat, lng) ==
    LET area == findAreaContainingPoint(lat, lng, upAreas.body)
    IN  IF area = Null
        THEN Returned(Null)
        ELSE LookupProduct(filterByProductType(upProducts.body, productType), area[1])

SameInputs(c, d) ==
    /\ calls[c].productType = calls[d].productType
    /\ calls[c].lat = calls[d].lat
    /\ calls[c].lng = calls[d].lng

\* C10 as stated: two finished calls with identical inputs have the same result
C10_SameInputsSameResult ==
    \A c, d \in Calls :
        (calls[c].pc = "done" /\ calls[d].pc = "done" /\ SameInputs(c, d))
            => calls[c].result = calls[d].result

\* C10 amended: the result of a finished call is determined by its own inputs and the
\* upstream responses (the value computed from them, or the error of the one fetch that
\* fails), whatever the other calls do, except that when both fetches fail it is the
\* error of either of them; so two calls with identical inputs agree unless both
\* fetches fail
C10_ResultOfOwnInputs ==
    /\ \A c \in Calls :
          calls[c].pc = "done" =>
              CASE ResponseOk(upAreas) /\ ResponseOk(upProducts) ->
                       calls[c].result
                           = Resolved(calls[c].productType, calls[c].lat, calls[c].lng)
                [] ~ResponseOk(upAreas) /\ ResponseOk(upProducts) ->
                       calls[c].result = Thrown(AreasError)
                [] ResponseOk(upAreas) /\ ~ResponseOk(upProducts) ->
                       calls[c].result = Thrown(ProductsError)
                [] OTHER ->
                       calls[c].result \in {Thrown(AreasError), Thrown(ProductsError)}
    /\ \A c, d \in Calls :
          ( /\ calls[c].pc = "done" /\ calls[d].pc = "done" /\ SameInputs(c, d)
            /\ (ResponseOk(upAreas) \/ ResponseOk(upProducts)) )
              => calls[c].result = calls[d].result

\* two calls with different product types ran interleaved and both returned a record
C10_Witness ==
    \E c, d \in Calls :
        /\ calls[c].computed /\ calls[d].computed
        /\ calls[c].productType # calls[d].productType
        /\ calls[c].result.kind = "product" /\ calls[d].result.kind = "product"
        /\ calls[c].result # calls[d].result

\* C17: the step in which a fetch of a suspended call fails ends the call with the
\* error of that fetch, whatever the state of the other fetch (still out included);
\* and the outcome of a call that has ended never changes, so that when both fetches
\* fail the error is that of the one that failed first
C17_FirstFailureEndsCall ==
    [][\A c \in Calls :
          /\ ( /\ calls[c].pc = "awaiting"
               /\ calls[c].areasReq = "pending" /\ calls'[c].areasReq = "failed" )
             => (calls'[c].pc = "done" /\ calls'[c].result = Thrown(AreasError))
          /\ ( /\ calls[c].pc = "awaiting"
               /\ calls[c].productsReq = "pending" /\ calls'[c].productsReq = "failed" )
             => (calls'[c].pc = "done" /\ calls'[c].result = Thrown(ProductsError))
          /\ calls[c].pc = "done"
             => (calls'[c].pc = "done" /\ calls'[c].result = calls[c].result)
      ]_vars

\* both fetches of a call have failed, the areas fetch after the call had ended with
\* the error of the products fetch
C17_Witness ==
    \E c \in Calls :
        /\ calls[c].pc = "done"
        /\ calls[c].productsReq = "failed" /\ calls[c].areasReq = "failed"
        /\ calls[c].result = Thrown(ProductsError)
        /\ ProductsError # AreasError

\* the upstream's product list has a record of the requested type for the k-th
\* received area
HasRecord(call, k) ==
    \E n \in 1..Len(upProducts.body) :
        /\ upProducts.body[n].type = call.productType
        /\ upProducts.body[n].areaId = call.areas.features[k].properties.id

\* C19: when both fetches succeeded and the first received area that contains the point
\* has no record of the requested type, the call ends with null, whatever records the
\* later areas that contain the point have
C19_NoFallbackToLaterArea ==
    \A c \in Calls :
        ( /\ calls[c].areasReq = "ok" /\ calls[c].productsReq = "ok"
          /\ ContainingAreas(calls[c]) # {}
          /\ ~HasRecord(calls[c], Least(ContainingAreas(calls[c]))) )
        => ( /\ calls[c].pc = "done"
             /\ calls[c].result = Returned(Null)
             /\ calls[c].area = Some(calls[c].areas.features[Least(ContainingAreas(calls[c]))]) )

\* a call that ended with null although a later area, with another id, contains the
\* point and has a record of the requested type
C19_Witness ==
    \E c \in Calls :
        /\ calls[c].computed
        /\ calls[c].result.kind = "null"
        /\ LET K == ContainingAreas(calls[c])
           IN  /\ K # {}
               /\ ~HasRecord(calls[c], Least(K))
               /\ \E k \in K :
                     /\ k > Least(K)
                     /\ HasRecord(calls[c], k)
                     /\ calls[c].areas.features[k].properties.id
                          # calls[c].areas.features[Least(K)].properties.id

RECURSIVE SumOver(_, _)
SumOver(f, S) ==
    IF S = {} THEN 0
    ELSE LET c == CHOOSE x \in S : TRUE IN f[c] + SumOver(f, S \ {c})

StartedCalls == { c \in Calls : calls[c].pc # "idle" }

\* C13: a call that has started has issued exactly one areas request and one products
\* request, whether they are out, answered or failed, and a call that has not started
\* has issued none: the calls made so far have issued as many requests of each kind
\* as there are calls
C13_OneRequestOfEachPerCall ==
    /\ \A c \in Calls :
          /\ calls[c].areasRequests = (IF c \in StartedCalls THEN 1 ELSE 0)
          /\ calls[c].productsRequests = (IF c \in StartedCalls THEN 1 ELSE 0)
    /\ SumOver([c \in Calls |-> calls[c].areasRequests], Calls) = Cardinality(StartedCalls)
    /\ SumOver([c \in Calls |-> calls[c].productsRequests], Calls) = Cardinality(StartedCalls)

\* every call has ended on a failed areas request, the later ones after the first one's
\* failure was known, and each has sent its own single request of each kind
C13_Witness ==
    /\ StartedCalls = Calls
    /\ \A c \in Calls :
          /\ calls[c].pc = "done"
          /\ calls[c].areasReq = "failed"
          /\ calls[c].result = Thrown(AreasError)
          /\ calls[c].areasRequests = 1 /\ calls[c].productsRequests = 1

----------------------------------------------------------------------------
(* Properties of the ring test (specification SpecRing) *)

\* the edge between the vertices p and q is a counted crossing for the point: exactly
\* one endpoint lies strictly north of the point, and the edge meets the point's
\* latitude at x = q.x + (p.x - q.x) * (lat - q.y) / (p.y - q.y), strictly east of it
CountedCrossing(lat, lng, p, q) ==
    /\ \/ p[2] > lat /\ ~(q[2] > lat)
       \/ q[2] > lat /\ ~(p[2] > lat)
    /\ LET dy == p[2] - q[2]
           num == (p[1] - q[1]) * (lat - q[2])
       IN  IF dy > 0
           THEN (lng - q[1]) * dy < num
           ELSE (lng - q[1]) * dy > num

\* the (1-based) positions i whose edge (ring[i], ring[i - 1 mod n]) is counted
CountedCrossings(lat, lng, ring) ==
    { i \in 1..Len(ring) :
        CountedCrossing(lat, lng, ring[i], ring[IF i = 1 THEN Len(ring) ELSE i - 1]) }

\* C5: isPointInRing is true exactly when the number of counted crossings is odd
C5_EvenOddRule ==
    gOut # << >> =>
        gOut[1] = (Cardinality(CountedCrossings(gIn.lat, gIn.lng, gIn.ring)) % 2 = 1)

\* a point found inside through a single crossing that is the closing edge
C5_Witness ==
    /\ gOut = <<TRUE>>
    /\ Len(gIn.ring) = MaxRingLen
    /\ CountedCrossings(gIn.lat, gIn.lng, gIn.ring) = {1}

\* the longitudes and the latitudes of the vertices of a ring
Longitudes(ring) == { ring[k][1] : k \in 1..Len(ring) }

Latitudes(ring) == { ring[k][2] : k \in 1..Len(ring) }

WestOf(lng, ring) == \A x \in Longitudes(ring) : lng < x

EastOf(lng, ring) == \A x \in Longitudes(ring) : lng > x

SouthOf(lat, ring) == \A y \in Latitudes(ring) : lat < y

NorthOf(lat, ring) == \A y \in Latitudes(ring) : lat > y

----------------------------------------------------------------------------
(* Properties of the edges of a ring (specification SpecEdges) *)

\* the pairs (i, j) of the iterations of the loop of isPointInRing (0-based)
LoopEdges(ring) ==
    { <<i, IF i = 0 THEN Len(ring) - 1 ELSE i - 1>> : i \in 0..(Len(ring) - 1) }

Horizontal(ring, edge) == ring[edge[1] + 1][2] = ring[edge[2] + 1][2]

\* C18: in every iteration of the loop of isPointInRing a division is carried out only
\* when the latitudes of the two endpoints differ, so never by zero; and an edge whose
\* endpoints have the same latitude never toggles the result
C18_NoDivisionOnHorizontalEdge ==
    gOut # << >> =>
        \A edge \in LoopEdges(gIn.ring) :
            LET divisors == EdgeDivisors(gIn.lat, gIn.lng, gIn.ring, edge[1], edge[2])
            IN  /\ 0 \notin divisors
                /\ divisors # {} => ~Horizontal(gIn.ring, edge)
                /\ Horizontal(gIn.ring, edge)
                   => ( /\ divisors = {}
                        /\ ~EdgeToggles(gIn.lat, gIn.lng, gIn.ring, edge[1], edge[2]) )

\* a ring with a horizontal edge of two distinct vertices at the latitude of the
\* point, east of it, has been evaluated, and another edge of it has divided
C18_Witness ==
    /\ gOut # << >>
    /\ \E edge \in LoopEdges(gIn.ring) :
          /\ Horizontal(gIn.ring, edge)
          /\ gIn.ring[edge[1] + 1] # gIn.ring[edge[2] + 1]
          /\ gIn.ring[edge[1] + 1][2] = gIn.lat
          /\ gIn.lng < gIn.ring[edge[1] + 1][1] /\ gIn.lng < gIn.ring[edge[2] + 1][1]
    /\ \E edge \in LoopEdges(gIn.ring) :
          EdgeDivisors(gIn.lat, gIn.lng, gIn.ring, edge[1], edge[2]) # {}

\* the ring with its first vertex repeated at the end
Closed(ring) == Append(ring, ring[1])

\* C16: for a ring of at least one vertex, isPointInRing gives the same answer for the
\* ring and for the ring with its first vertex appended again
C16_ClosingVertexOptional ==
    (gOut # << >> /\ gIn.ring # << >>) =>
        gOut[1] = isPointInRing(gIn.lat, gIn.lng, Closed(gIn.ring))

\* a point inside an open triangle, whose third edge only the wrap-around supplies
C16_Witness ==
    /\ gOut = <<TRUE>>
    /\ gIn.ring = << <<0, 0>>, <<4, 0>>, <<0, 4>> >>
    /\ gIn.lat = 1 /\ gIn.lng = 1
    /\ isPointInRing(gIn.lat, gIn.lng, Closed(gIn.ring))

----------------------------------------------------------------------------
(* Properties of the multipolygon test (specification SpecGeo) *)

\* inside ring 0 and inside none of the rings 1..n-1
InsidePolygon(lat, lng, polygon) ==
    /\ isPointInRing(lat, lng, polygon[1])
    /\ \A r \in 2..Len(polygon) : ~isPointInRing(lat, lng, polygon[r])

\* C6: a point is inside a polygon (a multipolygon of that one polygon) iff it is in
\* ring 0 and in none of the other rings; for the square (0,0)-(10,10), (5,5) is inside
\* and (15,5) is not, and with the hole (4,4)-(6,6) (5,5) is not inside
C6_OuterMinusHoles ==
    (gOut # << >> /\ Len(gIn.coordinates) = 1) =>
        /\ gOut[1] = InsidePolygon(gIn.lat, gIn.lng, gIn.coordinates[1])
        /\ (\E r \in 2..Len(gIn.coordinates[1]) :
               isPointInRing(gIn.lat, gIn.lng, gIn.coordinates[1][r])) => gOut[1] = FALSE
        /\ (gIn.coordinates = << <<Square(0, 10)>> >> /\ gIn.lng = 5 /\ gIn.lat = 5)
               => gOut[1] = TRUE
        /\ (gIn.coordinates = << <<Square(0, 10)>> >> /\ gIn.lng = 15 /\ gIn.lat = 5)
               => gOut[1] = FALSE
        /\ ( /\ gIn.coordinates = << <<Square(0, 10), Square(4, 6)>> >>
             /\ gIn.lng = 5 /\ gIn.lat = 5 )
               => gOut[1] = FALSE

\* a point in the overlap of two different holes of a polygon whose outer ring holds it
C6_Witness ==
    /\ gOut = <<FALSE>>
    /\ Len(gIn.coordinates) = 1
    /\ Len(gIn.coordinates[1]) = 3
    /\ gIn.coordinates[1][2] # gIn.coordinates[1][3]
    /\ \A r \in 1..3 : isPointInRing(gIn.lat, gIn.lng, gIn.coordinates[1][r])

Orderings(coordinates) ==
    LET n == Len(coordinates)
    IN  { [k \in 1..n |-> coordinates[pi[k]]] :
            pi \in { f \in [1..n -> 1..n] : \A a, b \in 1..n : f[a] = f[b] => a = b } }

\* C7: isPointInMultiPolygon is true iff some polygon holds the point (outer ring minus
\* holes), and every ordering of the polygons gives the same answer
C7_AnyPolygon ==
    gOut # << >> =>
        /\ gOut[1] = (\E k \in 1..Len(gIn.coordinates) :
                         InsidePolygon(gIn.lat, gIn.lng, gIn.coordinates[k]))
        /\ \A reordered \in Orderings(gIn.coordinates) :
              isPointInMultiPolygon(gIn.lat, gIn.lng, reordered) = gOut[1]

\* the point is in a hole of the first polygon and inside the second polygon
C7_Witness ==
    /\ gOut = <<TRUE>>
    /\ Len(gIn.coordinates) = 2
    /\ isPointInRing(gIn.lat, gIn.lng, gIn.coordinates[1][1])
    /\ ~InsidePolygon(gIn.lat, gIn.lng, gIn.coordinates[1])
    /\ InsidePolygon(gIn.lat, gIn.lng, gIn.coordinates[2])

----------------------------------------------------------------------------
(* Properties of the two fetches (specification SpecFetch) *)

\* C11: getAreas and getProducts throw exactly when the status of the response is
\* outside 200..299, and the error then carries the status and the status text of
\* the response; otherwise they return the body of the response and no error
C11_ThrowsExactlyOnNon2xx ==
    gOut # << >> =>
        LET endpoint == gIn[1]
            response == gIn[2]
            settled == gOut[1]
        IN  /\ settled.threw <=> ~(response.status \in 200..299)
            /\ settled.threw =>
                  /\ settled.error = <<[endpoint |-> endpoint, status |-> response.status,
                                        statusText |-> response.statusText]>>
                  /\ settled.value = Null
            /\ ~settled.threw =>
                  /\ settled.value = <<response.body>>
                  /\ settled.error = Null

\* a 3xx response with a payload has been thrown as an error that carries its status
C11_Witness ==
    /\ gOut # << >>
    /\ gIn[1] = "products"
    /\ gIn[2].status = 304
    /\ gIn[2].body = ProductList
    /\ gOut[1].threw
    /\ gOut[1].error[1].status = 304
    /\ gOut[1].error[1].statusText = "Not Modified"

----------------------------------------------------------------------------
(* Properties of a call with an unanswered request (specification SpecStall) *)

\* C12: every call of fetchForecastForLocation eventually terminates, also when one of
\* its two fetches never completes (the claim: with a timeout, at the caller's deadline)
C12_EventuallyTerminates == (calls[1].pc = "awaiting") ~> (calls[1].pc = "done")

----------------------------------------------------------------------------
(* Properties of the bounding box test (specification SpecBbox) *)

\* C14: isPointInBbox(lat, lng, [minLng, minLat, maxLng, maxLat]) is true exactly when
\* lng lies in the closed interval minLng..maxLng and lat in the closed interval
\* minLat..maxLat, so a point on an edge or a corner of the box is inside
C14_ClosedIntervals ==
    gOut # << >> =>
        (gOut[1] <=> ( /\ gIn.lng \in gIn.bbox[1]..gIn.bbox[3]
                       /\ gIn.lat \in gIn.bbox[2]..gIn.bbox[4] ))

\* a point on the corner (maxLng, minLat) of a box with distinct bounds was found inside
C14_Witness ==
    /\ gOut = <<TRUE>>
    /\ gIn.bbox[1] < gIn.bbox[3] /\ gIn.bbox[2] < gIn.bbox[4]
    /\ gIn.bbox[1] # gIn.bbox[2] /\ gIn.bbox[3] # gIn.bbox[4]
    /\ gIn.lng = gIn.bbox[3] /\ gIn.lat = gIn.bbox[2]

----------------------------------------------------------------------------
(* Properties of the type filter (specification SpecFilter) *)

\* the positions of the records of the given type
PositionsOfType(products, type) == { k \in 1..Len(products) : products[k].type = type }

\* the n-th smallest element of a set of positions
NthOf(K, n) == CHOOSE k \in K : Cardinality({ j \in K : j <= k }) = n

\* C15: filterByProductType(products, type) is the list of the records of products
\* whose type is the given one, each as often as it occurs and in the order of
\* products; records of the two other types are left out
C15_ExactlyTheTypeInOrder ==
    gOut # << >> =>
        LET K == PositionsOfType(gIn.products, gIn.type)
            filtered == gOut[1]
        IN  /\ Len(filtered) = Cardinality(K)
            /\ \A n \in 1..Len(filtered) : filtered[n] = gIn.products[NthOf(K, n)]
            /\ \A n \in 1..Len(filtered) : filtered[n].type = gIn.type

\* two different records of the asked type around one of another type came out as the
\* two of them, in their order
C15_Witness ==
    /\ gOut # << >>
    /\ Len(gIn.products) = 3
    /\ gIn.products[1].type = gIn.type
    /\ gIn.products[2].type # gIn.type
    /\ gIn.products[3].type = gIn.type
    /\ gIn.products[1] # gIn.products[3]
    /\ gOut[1] = <<gIn.products[1], gIn.products[3]>>

----------------------------------------------------------------------------
(* Properties of the avalanche info tool (specification SpecTool) *)

Formatter(type) ==
    CASE type = "avalancheforecast" -> "formatAvalancheForecast"
      [] type = "regionaldiscussion" -> "formatRegionalDiscussion"
      [] type = "specialproduct" -> "formatSpecialProduct"

\* C20: a record returned by fetchForecastForLocation has the requested type, whatever
\* mix of types the upstream sent; and when execute returns, it returns either the
\* content made by the formatter of the requested type from that record, or the error
\* "No forecast available for this location", never "Unexpected product type"
C20_ReturnedRecordHasRequestedType ==
    /\ \A c \in Calls :
          calls[c].result.kind = "product"
              => calls[c].result.product[1].type = calls[c].productType
    /\ (gOut # << >> /\ ~gOut[1].threw) =>
          /\ gOut[1].error # Some("Unexpected product type")
          /\ \/ /\ gOut[1].error = Some("No forecast available for this location")
                /\ gOut[1].content = Null
                /\ calls[1].result.kind = "null"
             \/ /\ gOut[1].error = Null
                /\ calls[1].result.kind = "product"
                /\ gOut[1].content
                     = Some(<<Formatter(calls[1].productType), calls[1].result.product[1]>>)

\* execute returned the content of a special product that the upstream had sent after
\* a record of another type for the same area
C20_Witness ==
    /\ gOut # << >>
    /\ ~gOut[1].threw
    /\ gOut[1].content # Null
    /\ calls[1].productType = "specialproduct"
    /\ Len(upProducts.body) = 2
    /\ upProducts.body[1].type # "specialproduct"
    /\ upProducts.body[1].areaId = upProducts.body[2].areaId
    /\ gOut[1].content[1][2] = upProducts.body[2]

====
